---- MODULE Spec2Model ----
(***************************************************************************)
(* Model of filehandles/filehandles.py: the opener registry, the           *)
(* filehandles() dispatcher generator and the six opener generators.       *)
(* A path is a sequence of name tokens ("/" is the separator token); a     *)
(* pattern is the regular expression  [.*] lit [$]  handed to re.match.    *)
(* The content of a directory or an archive is supplied by the             *)
(* environment entry by entry while the opener enumerates it.              *)
(***************************************************************************)
EXTENDS Integers, Sequences, FiniteSets, TLC

VARIABLES openers, imported, ncustom, disabled, gen, call, disp, op,
          streams, yielded, delivered, error, nstreams, walk, log

vars == <<openers, imported, ncustom, disabled, gen, call, disp, op,
          streams, yielded, delivered, error, nstreams, walk, log>>

----------------------------------------------------------------------------
(* Bounds *)
MaxCustom  == 1
MaxFiles   == 2
MaxEntries == 3
MaxNested  == 1

----------------------------------------------------------------------------
(* Names, paths and patterns *)

Sep == "/"

\* os.path.basename: the tokens after the last separator
RECURSIVE basename(_)
basename(p) ==
    IF p = <<>> THEN <<>>
    ELSE IF p[Len(p)] = Sep THEN <<>>
    ELSE basename(SubSeq(p, 1, Len(p) - 1)) \o <<p[Len(p)]>>

\* os.path.join(root, filename)
join(root, filename) == root \o <<Sep>> \o filename

\* os.path.abspath: a relative path is put under the working directory
abspath(p) == IF p # <<>> /\ p[1] = Sep THEN p ELSE <<Sep, "cwd", Sep>> \o p

\* str.endswith('/')
endswith_slash(name) == name # <<>> /\ name[Len(name)] = Sep

IsPrefix(a, s) == Len(a) <= Len(s) /\ SubSeq(s, 1, Len(a)) = a
IsSuffix(a, s) == Len(a) <= Len(s) /\ SubSeq(s, Len(s) - Len(a) + 1, Len(s)) = a
IsInfix(a, s)  == \E i \in 0..(Len(s) - Len(a)) : SubSeq(s, i + 1, i + Len(a)) = a

\* the empty pattern ''
NoPattern == [dotstar |-> FALSE, lit |-> <<>>, dollar |-> FALSE]

\* truthiness of the pattern string: '' is falsy
truthy(pattern) == pattern.dotstar \/ pattern.dollar \/ pattern.lit # <<>>

\* re.match(pattern, s) is not None, for the regex  [.*] lit [$]
re_match(pattern, s) ==
    CASE ~pattern.dotstar /\ ~pattern.dollar -> IsPrefix(pattern.lit, s)
      [] ~pattern.dotstar /\  pattern.dollar -> pattern.lit = s
      []  pattern.dotstar /\ ~pattern.dollar -> IsInfix(pattern.lit, s)
      []  pattern.dotstar /\  pattern.dollar -> IsSuffix(pattern.lit, s)

skipped_inverted(pattern, name) == truthy(pattern) /\ re_match(pattern, name)

\* "if pattern and not re.match(pattern, name)": the name is skipped
skipped(pattern, name) == truthy(pattern) /\ ~re_match(pattern, name)

\* the name passes the filter of a call with this pattern
NameMatches(pattern, name) == pattern = NoPattern \/ re_match(pattern, name)

\* is_url: scheme, netloc and path all non-empty
is_url(p) == Len(p) >= 3 /\ p[1] = "http://host" /\ p[2] = Sep

----------------------------------------------------------------------------
(* Inputs *)

TxtPattern == [dotstar |-> TRUE, lit |-> <<".txt">>, dollar |-> TRUE]
APattern   == [dotstar |-> FALSE, lit |-> <<"a">>, dollar |-> FALSE]
Patterns   == {NoPattern, TxtPattern, APattern}

FileNames == {<<"a", ".txt">>, <<"b", ".log">>}
Roots     == {<<"d", Sep, "sub">>}

FileKinds == {"zip", "tar", "tarbad", "gz", "bz2", "plain", "empty",
              "missing", "gztrunc"}

ChildKinds == {"zip", "gz", "bz2", "plain", "empty", "missing", "gztrunc"}

TopSources ==
    {[path |-> <<"d">>, kind |-> "dir"]}
    \cup [path : {<<"w", Sep, "b", ".log">>,
                  <<"http://host", Sep, "a", ".txt">>},
          kind : FileKinds]

\* one regular file found by os.walk: (root, filename) and what it holds
Children == [root : Roots, name : FileNames, kind : ChildKinds]

\* archive members; a zip member is a directory iff its name ends in "/"
ZipEntries == {[name |-> <<"a", ".txt">>, type |-> "file"],
               [name |-> <<"b", ".log">>, type |-> "file"],
               [name |-> <<"dir", Sep>>, type |-> "dir"],
               [name |-> <<"dir", Sep, "a", ".txt">>, type |-> "file"]}
TarEntries == {[name |-> <<"a", ".txt">>, type |-> "file"],
               [name |-> <<"b", ".log">>, type |-> "file"],
               [name |-> <<"dir">>, type |-> "dir"],
               [name |-> <<"dir", Sep, "a", ".txt">>, type |-> "file"],
               [name |-> <<"l", ".txt">>, type |-> "sym"]}

\* the members of an archive found inside a directory
NestedEntries == {[name |-> <<"a", ".txt">>, type |-> "file"],
                  [name |-> <<"dir", Sep>>, type |-> "dir"]}

ExplicitLists == {<<"directory", "text">>}

----------------------------------------------------------------------------
(* The registry *)

\* the @register decorators in the order the module body executes them
ModuleOrder == <<"directory", "zip", "tar", "gzip", "bz2", "text">>

register_front(list, opener_function) == <<opener_function>> \o list

\* register(opener_function): openers.append(opener_function)
register(list, opener_function) == Append(list, opener_function)

without_directory_kept(list) == list

\* [opener for opener in openers if not opener.__name__.startswith('directory')]
without_directory(list) == SelectSeq(list, LAMBDA o : o # "directory")

Caught_without_ReadError ==
    {"BadZipfile", "GZValidationError", "BZ2ValidationError", "IOError",
     "NotADirectoryError"}

\* the exception classes of the dispatcher's except clause
Caught == {"BadZipfile", "ReadError", "GZValidationError",
           "BZ2ValidationError", "IOError", "NotADirectoryError"}

----------------------------------------------------------------------------
(* What the library calls of each opener do on each kind of source.        *)
(* "missing" is a path that cannot be opened (or a URL that cannot be      *)
(* fetched); OSError and its subclasses are IOError.                       *)

isdir_url_only(src) == src.kind = "dir" /\ is_url(src.path)

\* os.path.isdir(path)
isdir(src) == src.kind = "dir" /\ ~is_url(src.path)

\* zipfile.ZipFile(...)
ZipOpen(kind) ==
    CASE kind = "zip" -> "ok"
      [] kind \in {"missing", "dir"} -> "IOError"
      [] OTHER -> "BadZipfile"

\* tarfile.open(...)
TarOpen(kind) ==
    CASE kind \in {"tar", "tarbad"} -> "ok"
      [] kind \in {"missing", "dir"} -> "IOError"
      [] kind = "gztrunc" -> "EOFError"
      [] OTHER -> "ReadError"

\* gzip.open(...) followed by read(1) and seek(0): the exception of the
\* try body, and whether the stream had been opened when it was raised
GzipProbe(kind) ==
    CASE kind \in {"gz", "empty"} -> [exc |-> "ok", opened |-> TRUE]
      [] kind \in {"missing", "dir"} -> [exc |-> "OSError", opened |-> FALSE]
      [] kind = "gztrunc" -> [exc |-> "EOFError", opened |-> TRUE]
      [] OTHER -> [exc |-> "OSError", opened |-> TRUE]

\* bz2.open(...) followed by read(1) and seek(0)
Bz2Probe(kind) ==
    CASE kind \in {"bz2", "empty"} -> [exc |-> "ok", opened |-> TRUE]
      [] kind \in {"missing", "dir"} -> [exc |-> "OSError", opened |-> FALSE]
      [] OTHER -> [exc |-> "OSError", opened |-> TRUE]

\* urlopen(path) / open(path)
TextOpen(kind) == IF kind \in {"missing", "dir"} THEN "IOError" ELSE "ok"

\* "except (OSError, IOError): raise <validation error>" of gzip_opener and
\* bz2_opener; any other exception passes through
reraise(exc, validation) == IF exc = "OSError" THEN validation ELSE exc

zip_is_file_always(e) == TRUE

\* zipinfo.filename.endswith('/') decides which zip members are skipped
zip_is_file(e) == ~endswith_slash(e.name)

\* tarinfo.isfile()
tar_is_file(e) == e.type = "file"

----------------------------------------------------------------------------
(* State *)

NoHandle == [id |-> 0, by |-> "none", entry |-> <<>>, role |-> "none"]
NoOp     == [name |-> "none", pc |-> "none", k |-> 0, seen |-> <<>>,
             sublist |-> <<>>, arch |-> NoHandle]
NoDisp   == [path |-> <<>>, kind |-> "none", list |-> <<>>, idx |-> 0,
             pc |-> "idle", h |-> NoHandle, tried |-> <<>>, fails |-> <<>>,
             winner |-> 0]
NoCall   == [path |-> <<>>, kind |-> "none", pattern |-> NoPattern,
             default |-> TRUE, list |-> <<>>, verbose |-> FALSE]
NoWalk   == [nmatch |-> 0, nskip |-> 0, kinds |-> {}]
NoLog    == [said |-> 0, shown |-> 0]

closing_omitted(S, h) == S

\* with closing(filehandle): the handle is closed when the block is left
closing(S, h) == S \ {h}

finalize_never(S, h) == S

\* the last reference to a stream that was never closed goes away with the
\* frame that held it: the interpreter's reference counting runs the
\* object's finalizer at once, and the finalizer of an io object closes it
finalize(S, h) == S \ {h}

after_success_continue == "for"

\* "break  # use the first successful opener function": where the dispatcher
\* goes when the opener's sequence has completed normally
after_success == "done"

Init ==
    /\ openers = <<>>
    /\ imported = 0
    /\ ncustom = 0
    /\ disabled = FALSE
    /\ gen = "none"
    /\ call = NoCall
    /\ disp = [d \in 1..2 |-> NoDisp]
    /\ op = [d \in 1..2 |-> NoOp]
    /\ streams = {}
    /\ yielded = {}
    /\ delivered = <<>>
    /\ error = "none"
    /\ nstreams = 0
    /\ walk = NoWalk
    /\ log = NoLog

\* the frame that runs when the generator is running
DispActive(d) ==
    /\ gen = "running"
    /\ d = 2 => (disp[1].pc = "pull" /\ op[1].pc = "inner")
OpActive(d) == DispActive(d) /\ disp[d].pc = "pull"

----------------------------------------------------------------------------
(* How a frame hands its result to the frame that is iterating it.         *)
(* o1 is the new value of op.                                              *)

\* the dispatcher at depth d leaves its loop (winner w, or 0 when the list
\* is exhausted) or goes on with the next opener
Leave(d, w, pc, o1) ==
    /\ disp' = [disp EXCEPT ![d].pc = pc,
                            ![d].winner = IF w # 0 THEN w ELSE @]
    /\ op' = IF d = 2 /\ pc = "done" THEN [o1 EXCEPT ![1].pc = "walk"] ELSE o1
    /\ gen' = IF d = 1 /\ pc = "done" THEN "finished" ELSE gen
    /\ UNCHANGED <<delivered, yielded, error>>

\* the opener at depth d yields h: the dispatcher enters "with closing(h)"
\* and yields it (line 97); at depth 2 directory_opener re-yields it (line
\* 131) and the top dispatcher yields it to the caller
Yield(d, h, o1) ==
    /\ disp' = IF d = 1 THEN [disp EXCEPT ![1].pc = "yield", ![1].h = h]
               ELSE [disp EXCEPT ![2].pc = "yield", ![2].h = h,
                                 ![1].pc = "yield", ![1].h = h]
    /\ op' = IF d = 1 THEN o1 ELSE [o1 EXCEPT ![1].pc = "reyield"]
    /\ gen' = "suspended"
    /\ delivered' = Append(delivered, h)
    /\ yielded' = yielded \cup {h}
    /\ UNCHANGED error

\* the opener at depth d completes normally: line 98
Return(d, o1) == Leave(d, disp[d].idx, after_success, o1)

\* the opener at depth d raises e: lines 100-102 continue with the next
\* opener; any other exception leaves every frame up to the caller
Raise(d, e, o1) ==
    LET f == [by |-> op[d].name, exc |-> e] IN
    IF e \in Caught
    THEN /\ disp' = [disp EXCEPT ![d].pc = "for", ![d].fails = Append(@, f)]
         /\ op' = o1
         /\ UNCHANGED <<gen, delivered, yielded, error>>
    ELSE /\ disp' = [c \in 1..2 |->
                       IF c <= d
                       THEN [disp[c] EXCEPT !.pc = "raised",
                                            !.fails = Append(@, f)]
                       ELSE disp[c]]
         /\ op' = IF d = 2 THEN [o1 EXCEPT ![1].pc = "raised"] ELSE o1
         /\ gen' = "raised"
         /\ error' = e
         /\ UNCHANGED <<delivered, yielded>>

Static == <<openers, imported, ncustom, call>>

\* logger.verbose(msg): the call is made; the handler writes the message
\* unless logging.disable(logging.VERBOSE) is in effect
logger_verbose ==
    log' = [said |-> log.said + 1,
            shown |-> IF disabled THEN log.shown ELSE log.shown + 1]

----------------------------------------------------------------------------
(* Module import and registration *)

\* the module body runs the next @register decorator
Import ==
    /\ imported < Len(ModuleOrder)
    /\ imported' = imported + 1
    /\ openers' = register(openers, ModuleOrder[imported + 1])
    /\ UNCHANGED <<ncustom, disabled, gen, call, disp, op, streams,
                   yielded, delivered, error, nstreams, walk, log>>

Idle == gen \in {"none", "finished", "raised", "closed"}

\* a client registers an opener of its own after the import
RegisterCustom ==
    /\ imported = Len(ModuleOrder)
    /\ gen = "none"
    /\ ncustom < MaxCustom
    /\ ncustom' = ncustom + 1
    /\ openers' = register(openers, "custom")
    /\ UNCHANGED <<imported, disabled, gen, call, disp, op, streams,
                   yielded, delivered, error, nstreams, walk, log>>

----------------------------------------------------------------------------
(* The caller *)

\* filehandles(path, openers_list, pattern, verbose): creates the generator;
\* no line of the body runs before the first next()
CallResolve ==
    /\ imported = Len(ModuleOrder)
    /\ gen = "none"
    /\ \E src \in TopSources, pattern \in Patterns, verbose \in BOOLEAN,
          list \in {openers} \cup ExplicitLists :
          /\ call' = [path |-> src.path, kind |-> src.kind,
                      pattern |-> pattern, default |-> list = openers,
                      list |-> list, verbose |-> verbose]
          /\ disp' = [d \in 1..2 |->
                        IF d = 1
                        THEN [NoDisp EXCEPT !.path = src.path,
                                            !.kind = src.kind,
                                            !.list = list, !.pc = "entry"]
                        ELSE NoDisp]
    /\ gen' = "created"
    /\ UNCHANGED <<openers, imported, ncustom, disabled, op, streams, yielded,
                   delivered, error, nstreams, walk, log>>

\* the caller drops the generator that has ended
Discard ==
    /\ Idle
    /\ gen # "none"
    /\ gen' = "none"
    /\ call' = NoCall
    /\ disp' = [d \in 1..2 |-> NoDisp]
    /\ op' = [d \in 1..2 |-> NoOp]
    /\ streams' = {}
    /\ yielded' = {}
    /\ delivered' = <<>>
    /\ error' = "none"
    /\ nstreams' = 0
    /\ walk' = NoWalk
    /\ log' = NoLog
    /\ UNCHANGED <<openers, imported, ncustom, disabled>>

\* next(generator)
CallerNext ==
    /\ gen \in {"created", "suspended"}
    /\ gen' = "running"
    /\ UNCHANGED <<openers, imported, ncustom, disabled, call, disp,
                   op, streams, yielded, delivered, error, nstreams, walk,
                   log>>

\* generator.close() (also run when the abandoned generator is finalized):
\* GeneratorExit is raised at the yield of line 97, the with blocks of the
\* suspended frames are left
Close ==
    /\ gen \in {"created", "suspended"}
    /\ gen' = "closed"
    /\ streams' = (closing(closing(streams, disp[1].h), disp[2].h))
                     \ {op[1].arch, op[2].arch}
    /\ UNCHANGED <<Static, disabled, disp, op, yielded, delivered, error,
                   nstreams, walk, log>>

----------------------------------------------------------------------------
(* The dispatcher: filehandles() *)

\* lines 90-91
DispEntry(d) ==
    /\ DispActive(d)
    /\ disp[d].pc = "entry"
    /\ disabled' = (disabled \/ ~call.verbose)
    /\ disp' = [disp EXCEPT ![d].pc = "for"]
    /\ UNCHANGED <<Static, gen, op, streams, yielded, delivered, error,
                   nstreams, walk, log>>

\* line 93: the next opener of the list is called (line 95), or the list
\* is exhausted and the generator returns
DispFor(d) ==
    /\ DispActive(d)
    /\ disp[d].pc = "for"
    /\ IF disp[d].idx < Len(disp[d].list)
       THEN /\ disp' = [disp EXCEPT
                          ![d].idx = @ + 1, ![d].pc = "pull",
                          ![d].tried = Append(@, disp[d].list[disp[d].idx + 1])]
            /\ op' = [op EXCEPT ![d] =
                        [NoOp EXCEPT !.name = disp[d].list[disp[d].idx + 1],
                                     !.pc = "start"]]
            /\ UNCHANGED <<gen, delivered, yielded, error>>
       ELSE Leave(d, 0, "done", [op EXCEPT ![d] = NoOp])
    /\ UNCHANGED <<Static, disabled, streams, nstreams, walk, log>>

\* the caller (or directory_opener) asks for the next item: the with block
\* of line 96 is left, which closes the handle, and the opener is resumed
DispResume(d) ==
    /\ DispActive(d)
    /\ disp[d].pc = "yield"
    /\ streams' = closing(streams, disp[d].h)
    /\ disp' = [disp EXCEPT ![d].pc = "pull"]
    /\ UNCHANGED <<Static, disabled, gen, op, yielded, delivered, error,
                   nstreams, walk, log>>

----------------------------------------------------------------------------
(* The openers *)

Stream(by, entry, role) ==
    [id |-> nstreams + 1, by |-> by, entry |-> entry, role |-> role]

Running(d, name, pcs) ==
    /\ OpActive(d)
    /\ op[d].name = name
    /\ op[d].pc \in pcs

\* directory_opener, lines 117-120
DirStart ==
    /\ Running(1, "directory", {"start"})
    /\ IF ~isdir(disp[1])
       THEN Raise(1, "NotADirectoryError", [op EXCEPT ![1].pc = "raised"])
       ELSE /\ op' = [op EXCEPT ![1].pc = "walk",
                                ![1].sublist = without_directory(openers)]
            /\ UNCHANGED <<disp, gen, delivered, yielded, error>>
    /\ UNCHANGED <<Static, disabled, streams, nstreams, walk, log>>

\* directory_opener, lines 122-130: os.walk produces the next regular file
\* (or is exhausted); a file whose name the pattern rejects is skipped, for
\* any other the dispatcher is called on its absolute path
DirWalk ==
    /\ Running(1, "directory", {"walk"})
    /\ \/ /\ Return(1, [op EXCEPT ![1].pc = "returned"])
          /\ UNCHANGED <<walk, log>>
       \/ /\ op[1].k < MaxFiles
          /\ \E c \in Children :
               IF skipped(call.pattern, c.name)
               THEN /\ op' = [op EXCEPT ![1].k = @ + 1]
                    /\ walk' = [walk EXCEPT
                          !.nmatch = IF NameMatches(call.pattern, c.name)
                                     THEN @ + 1 ELSE @,
                          !.nskip = IF NameMatches(call.pattern, c.name)
                                    THEN @ ELSE @ + 1]
                    /\ logger_verbose
                    /\ UNCHANGED <<disp, gen, delivered, yielded, error>>
               ELSE /\ op' = [op EXCEPT ![1].k = @ + 1, ![1].pc = "inner",
                                        ![2] = NoOp]
                    /\ disp' = [disp EXCEPT ![2] =
                          [NoDisp EXCEPT
                             !.path = abspath(join(c.root, c.name)),
                             !.kind = c.kind,
                             !.list = op[1].sublist,
                             !.pc = "entry"]]
                    /\ walk' = [walk EXCEPT
                          !.nmatch = IF NameMatches(call.pattern, c.name)
                                     THEN @ + 1 ELSE @,
                          !.nskip = IF NameMatches(call.pattern, c.name)
                                    THEN @ ELSE @ + 1,
                          !.kinds = @ \cup {c.kind}]
                    /\ UNCHANGED <<gen, delivered, yielded, error, log>>
    /\ UNCHANGED <<Static, disabled, streams, nstreams>>

\* directory_opener resumed after its yield of line 131: back to line 130
DirResume ==
    /\ Running(1, "directory", {"reyield"})
    /\ op' = [op EXCEPT ![1].pc = "inner"]
    /\ UNCHANGED <<Static, disabled, gen, disp, streams, yielded, delivered,
                   error, nstreams, walk, log>>

\* line 142 / line 164: the archive is opened under "with"
ArchStart(d, name, r) ==
    /\ Running(d, name, {"start"})
    /\ IF r = "ok"
       THEN LET a == Stream(name, <<>>, "archive") IN
            /\ streams' = streams \cup {a}
            /\ nstreams' = nstreams + 1
            /\ op' = [op EXCEPT ![d].pc = "iter", ![d].arch = a]
            /\ UNCHANGED <<disp, gen, delivered, yielded, error>>
       ELSE /\ Raise(d, r, [op EXCEPT ![d].pc = "raised"])
            /\ UNCHANGED <<streams, nstreams>>
    /\ UNCHANGED <<Static, disabled, walk, log>>

\* lines 143-153 / 165-175: the next member of the archive, or its end; the
\* with block closes the archive when the generator returns or raises
ArchIter(d, name, entries, files) ==
    /\ Running(d, name, {"iter", "yielded"})
    /\ \/ /\ disp[d].kind # "tarbad"
          /\ streams' = streams \ {op[d].arch}
          /\ Return(d, [op EXCEPT ![d].pc = "returned",
                                  ![d].arch = NoHandle])
          /\ UNCHANGED <<nstreams, log>>
       \/ /\ disp[d].kind = "tarbad"
          /\ op[d].k >= 1
          /\ streams' = streams \ {op[d].arch}
          /\ Raise(d, "ReadError", [op EXCEPT ![d].pc = "raised",
                                              ![d].arch = NoHandle])
          /\ UNCHANGED <<nstreams, log>>
       \/ /\ op[d].k < (IF d = 1 THEN MaxEntries ELSE MaxNested)
          /\ \E e \in (IF d = 1 THEN entries ELSE entries \cap NestedEntries) :
               LET o1 == [op EXCEPT ![d].k = @ + 1,
                                    ![d].seen = Append(@, e)]
                   h == Stream(name, e.name, "handle") IN
               IF e \notin files \/ skipped(call.pattern, e.name)
               THEN /\ op' = [o1 EXCEPT ![d].pc = "iter"]
                    /\ IF e \in files THEN logger_verbose
                       ELSE UNCHANGED log
                    /\ UNCHANGED <<disp, gen, delivered, yielded, error,
                                   streams, nstreams>>
               ELSE /\ logger_verbose
                    /\ streams' = streams \cup {h}
                    /\ nstreams' = nstreams + 1
                    /\ Yield(d, h, [o1 EXCEPT ![d].pc = "yielded"])
    /\ UNCHANGED <<Static, disabled, walk>>

ZipStart(d) == ArchStart(d, "zip", ZipOpen(disp[d].kind))
ZipIter(d) ==
    ArchIter(d, "zip", ZipEntries, {e \in ZipEntries : zip_is_file(e)})
TarStart(d) == ArchStart(d, "tar", TarOpen(disp[d].kind))
TarIter(d) ==
    ArchIter(d, "tar", TarEntries, {e \in TarEntries : tar_is_file(e)})

\* gzip_opener / bz2_opener: the pattern test on the base name, the probe
\* under try/except, the single yield. The stream of a probe that fails is
\* closed nowhere in the code: it is held by the local filehandle of the
\* opener's frame, which the dispatcher's except clause releases; an
\* exception that is not caught keeps the frame, and the stream, alive
Compressed(d, name, r, validation) ==
    /\ Running(d, name, {"start", "yielded"})
    /\ IF op[d].pc = "yielded" \/ skipped(call.pattern, basename(disp[d].path))
       THEN /\ Return(d, [op EXCEPT ![d].pc = "returned"])
            /\ IF op[d].pc = "start" THEN logger_verbose ELSE UNCHANGED log
            /\ UNCHANGED <<streams, nstreams>>
       ELSE IF r.exc = "ok"
       THEN LET h == Stream(name, <<>>, "handle") IN
            /\ logger_verbose
            /\ streams' = streams \cup {h}
            /\ nstreams' = nstreams + 1
            /\ Yield(d, h, [op EXCEPT ![d].pc = "yielded"])
       ELSE /\ streams' =
                 IF ~r.opened THEN streams
                 ELSE IF reraise(r.exc, validation) \in Caught
                 THEN finalize(streams \cup {Stream(name, <<>>, "probe")},
                               Stream(name, <<>>, "probe"))
                 ELSE streams \cup {Stream(name, <<>>, "probe")}
            /\ nstreams' = IF r.opened THEN nstreams + 1 ELSE nstreams
            /\ Raise(d, reraise(r.exc, validation),
                     [op EXCEPT ![d].pc = "raised"])
            /\ UNCHANGED log
    /\ UNCHANGED <<Static, disabled, walk>>

GzipOpener(d) ==
    Compressed(d, "gzip", GzipProbe(disp[d].kind), "GZValidationError")
Bz2Opener(d) ==
    Compressed(d, "bz2", Bz2Probe(disp[d].kind), "BZ2ValidationError")

\* text_opener
TextOpener(d) ==
    /\ Running(d, "text", {"start", "yielded"})
    /\ IF op[d].pc = "yielded" \/ skipped(call.pattern, basename(disp[d].path))
       THEN /\ Return(d, [op EXCEPT ![d].pc = "returned"])
            /\ IF op[d].pc = "start" THEN logger_verbose ELSE UNCHANGED log
            /\ UNCHANGED <<streams, nstreams>>
       ELSE IF TextOpen(disp[d].kind) = "ok"
       THEN LET h == Stream("text", <<>>, "handle") IN
            /\ logger_verbose
            /\ streams' = streams \cup {h}
            /\ nstreams' = nstreams + 1
            /\ Yield(d, h, [op EXCEPT ![d].pc = "yielded"])
       ELSE /\ Raise(d, TextOpen(disp[d].kind),
                     [op EXCEPT ![d].pc = "raised"])
            /\ UNCHANGED <<streams, nstreams, log>>
    /\ UNCHANGED <<Static, disabled, walk>>

\* an opener registered by a client: it rejects the source or finds nothing
CustomOpener(d) ==
    /\ Running(d, "custom", {"start"})
    /\ \/ Raise(d, "IOError", [op EXCEPT ![d].pc = "raised"])
       \/ Return(d, [op EXCEPT ![d].pc = "returned"])
    /\ UNCHANGED <<Static, disabled, streams, nstreams, walk, log>>

----------------------------------------------------------------------------
Next ==
    \/ Import
    \/ RegisterCustom
    \/ CallResolve
    \/ Discard
    \/ CallerNext
    \/ Close
    \/ \E d \in 1..2 : DispEntry(d)
    \/ \E d \in 1..2 : DispFor(d)
    \/ \E d \in 1..2 : DispResume(d)
    \/ DirStart
    \/ DirWalk
    \/ DirResume
    \/ \E d \in 1..2 : ZipStart(d)
    \/ \E d \in 1..2 : ZipIter(d)
    \/ \E d \in 1..2 : TarStart(d)
    \/ \E d \in 1..2 : TarIter(d)
    \/ \E d \in 1..2 : GzipOpener(d)
    \/ \E d \in 1..2 : Bz2Opener(d)
    \/ \E d \in 1..2 : TextOpener(d)
    \/ \E d \in 1..2 : CustomOpener(d)

Spec == Init /\ [][Next]_vars

\* the steps of the module's own code, from a next() to the following
\* yield, return or raise
Engine ==
    \/ \E d \in 1..2 : DispEntry(d)
    \/ \E d \in 1..2 : DispFor(d)
    \/ \E d \in 1..2 : DispResume(d)
    \/ DirStart
    \/ DirWalk
    \/ DirResume
    \/ \E d \in 1..2 : ZipStart(d)
    \/ \E d \in 1..2 : ZipIter(d)
    \/ \E d \in 1..2 : TarStart(d)
    \/ \E d \in 1..2 : TarIter(d)
    \/ \E d \in 1..2 : GzipOpener(d)
    \/ \E d \in 1..2 : Bz2Opener(d)
    \/ \E d \in 1..2 : TextOpener(d)

\* the program with the openers of the module only: whether an opener that
\* a client registers comes to an end is not the module's to decide
LiveNext ==
    \/ Import
    \/ CallResolve
    \/ Discard
    \/ CallerNext
    \/ Close
    \/ Engine

\* a generator that has been resumed runs its code (single thread, no
\* blocking call in the model's sources), and the caller iterates the
\* sequence it has asked for: for filehandle in filehandles(...)
LiveSpec ==
    Init /\ [][LiveNext]_vars /\ WF_vars(Engine) /\ WF_vars(CallerNext)

----------------------------------------------------------------------------
(* Properties *)

\* the yielded handles that are open
OpenHandles == yielded \cap streams

\* the opener the dispatcher at depth d has selected, "none" if none
Winner(d) == IF disp[d].winner = 0 THEN "none"
             ELSE disp[d].list[disp[d].winner]

\* the entry names of the delivered handles, in delivery order
DeliveredEntries == [i \in 1..Len(delivered) |-> delivered[i].entry]

\* the names of the members of the enumerated archive that are of one of
\* the given types and pass the pattern, in archive order
RECURSIVE Surfaced(_, _)
Surfaced(seen, types) ==
    IF seen = <<>> THEN <<>>
    ELSE LET e == Head(seen) IN
         (IF e.type \in types /\ NameMatches(call.pattern, e.name)
          THEN <<e.name>> ELSE <<>>) \o Surfaced(Tail(seen), types)

\* C1: a dispatcher calls the openers of its list in list order, and once
\* an opener's sequence has completed normally the dispatcher is done and
\* has called no opener after that one.
C1_FirstSuccessWins ==
    \A d \in 1..2 :
        /\ disp[d].tried = SubSeq(disp[d].list, 1, Len(disp[d].tried))
        /\ disp[d].winner # 0 =>
              /\ disp[d].pc = "done"
              /\ Len(disp[d].tried) = disp[d].winner

\* a gzip file: gzip_opener wins although text_opener, later in the list,
\* would open the file as well
C1_Witness ==
    /\ gen = "finished"
    /\ call.kind = "gz"
    /\ Winner(1) = "gzip"
    /\ disp[1].winner < Len(disp[1].list)
    /\ Len(delivered) = 1

\* C2: when every opener of the list has raised a caught exception and no
\* handle was yielded, the caller receives exactly one None.
C2_SentinelWhenNoneMatched ==
    (/\ gen = "finished"
     /\ disp[1].winner = 0
     /\ Len(disp[1].fails) = Len(disp[1].list)
     /\ yielded = {})
    => delivered = <<NoHandle>>

\* C3: an IOError raised by text_opener reaches the caller of filehandles:
\* once the generator has stopped running, it has raised that error.
C3_IOFailurePropagates ==
    (/\ gen # "running"
     /\ \E d \in 1..2 : \E i \in 1..Len(disp[d].fails) :
          disp[d].fails[i] = [by |-> "text", exc |-> "IOError"])
    => (gen = "raised" /\ error = "IOError")

\* C4: at most one yielded handle is open, and while an opener is asked for
\* its next item no handle yielded before is open.
C4_OneOpenHandle ==
    /\ Cardinality(OpenHandles) <= 1
    /\ \A d \in 1..2 :
          (gen = "running" /\ disp[d].pc = "pull" /\ disp[d].idx > 0)
          => (disp[d].h \notin streams /\ (OpActive(d) => OpenHandles = {}))

\* a second handle delivered through the recursion of directory_opener
\* while the first one is closed
C4_Witness ==
    /\ gen = "suspended"
    /\ Len(delivered) >= 2
    /\ disp[2].pc = "yield"
    /\ delivered[1] \notin streams
    /\ delivered[Len(delivered)] \in streams

\* C5: after the generator has been closed while it was suspended, no
\* yielded handle is open.
C5_ClosedOnTeardown == gen = "closed" => OpenHandles = {}

\* the generator closed while the caller held a handle
C5_Witness ==
    /\ gen = "closed"
    /\ delivered # <<>>
    /\ disp[1].pc = "yield"
    /\ disp[1].h = delivered[Len(delivered)]
    /\ disp[1].h \notin streams

\* C6: when the import has completed the registry is directory, zip, tar,
\* gzip, bz2, text, in this order.
C6_RegistryAfterImport ==
    (imported = 6 /\ ncustom = 0)
    => openers = <<"directory", "zip", "tar", "gzip", "bz2", "text">>

C6_Witness == imported = 6 /\ ncustom = 0 /\ Len(openers) = 6

\* C7: after the import, whatever has been registered since, text_opener is
\* the last opener of the registry.
C7_PlainTextLast ==
    imported = 6 => openers[Len(openers)] = "text"

\* C8 (as stated): a resolved directory has delivered as many handles as
\* it holds files whose base name passes the pattern.
C8_ExactlyN ==
    (gen = "finished" /\ call.kind = "dir" /\ Winner(1) = "directory")
    => Len(delivered) = walk.nmatch

\* the files that hold exactly one stream for the openers
SingleStreamKinds == {"gz", "bz2", "plain", "empty"}

\* C8 (amended): when every file whose base name passes the pattern is a
\* readable file that is no zip or tar archive, a resolved directory has
\* delivered as many handles as it holds such files.
C8_ExactlyN_SingleStream ==
    (/\ gen = "finished" /\ call.kind = "dir" /\ Winner(1) = "directory"
     /\ walk.kinds \subseteq SingleStreamKinds)
    => Len(delivered) = walk.nmatch

\* a directory with a file that passes and a file that does not
C8_Witness ==
    /\ gen = "finished" /\ call.kind = "dir" /\ Winner(1) = "directory"
    /\ walk.kinds \subseteq SingleStreamKinds
    /\ walk.nmatch >= 1 /\ walk.nskip >= 1
    /\ Len(delivered) = walk.nmatch

\* C9: resolving a directory without files delivers nothing, and no opener
\* after directory_opener is called.
C9_EmptyDirectory ==
    (/\ gen = "finished" /\ call.kind = "dir"
     /\ walk.nmatch + walk.nskip = 0)
    => (delivered = <<>> /\ disp[1].tried = <<"directory">>
        /\ Winner(1) = "directory")

C9_Witness ==
    /\ gen = "finished" /\ call.kind = "dir"
    /\ walk.nmatch + walk.nskip = 0
    /\ delivered = <<>>
    /\ Winner(1) = "directory"

\* the top-level call has resolved a valid archive with its own opener
ArchiveResolved ==
    /\ gen = "finished"
    /\ call.kind \in {"zip", "tar"}
    /\ Winner(1) = call.kind

\* C10 (as stated): the handles of a resolved archive are those of its
\* members that are not directories and whose name passes the pattern, in
\* archive order.
C10_NonDirectoryEntries ==
    ArchiveResolved
    => DeliveredEntries = Surfaced(op[1].seen, {"file", "sym"})

\* C10 (amended): the handles of a resolved archive are those of its
\* regular-file members whose name passes the pattern, in archive order; a
\* tar member that is neither a regular file nor a directory (a link) is
\* not surfaced either.
C10_RegularFileEntries ==
    ArchiveResolved
    => (/\ DeliveredEntries = Surfaced(op[1].seen, {"file"})
        /\ \A i \in 1..Len(delivered) : delivered[i].by = call.kind)

\* the zip archive {a.txt, dir/, b.log} resolved with the pattern .*\.txt$
C10_Witness ==
    /\ ArchiveResolved
    /\ call.kind = "zip"
    /\ call.pattern = TxtPattern
    /\ [i \in 1..Len(op[1].seen) |-> op[1].seen[i].name]
          = << <<"a", ".txt">>, <<"dir", Sep>>, <<"b", ".log">> >>
    /\ DeliveredEntries = << <<"a", ".txt">> >>

\* the exception a dispatcher has caught from the named opener, if any
Rejected(d, by, exc) ==
    \E i \in 1..Len(disp[d].fails) :
        disp[d].fails[i].by = by /\ disp[d].fails[i].exc = exc

\* C11: a readable local file that is no archive and not compressed, whose
\* name passes the pattern, resolved with the default registry: gzip_opener
\* has raised GZValidationError, bz2_opener BZ2ValidationError, and exactly
\* one handle, that of text_opener, has been delivered without an error.
C11_FallsThroughToText ==
    (/\ gen = "finished"
     /\ call.default
     /\ call.kind \in {"plain", "empty"}
     /\ ~is_url(call.path)
     /\ NameMatches(call.pattern, basename(call.path)))
    => (/\ Rejected(1, "gzip", "GZValidationError")
        /\ Rejected(1, "bz2", "BZ2ValidationError")
        /\ Len(delivered) = 1
        /\ delivered[1].by = "text"
        /\ error = "none")

\* C12: what a call with verbose = False suppresses is suppressed for that
\* call only: in a call with verbose = True every logger.verbose message of
\* the call is written, whatever the calls before it were.
C12_SuppressionEndsWithCall ==
    call.verbose => log.shown = log.said

\* the failures that mean "this strategy does not support the source"
UnsupportedSource == {"NotADirectoryError", "BadZipfile", "ReadError",
                      "GZValidationError", "BZ2ValidationError", "IOError"}

\* the opener has delivered a handle in the current call
HasDelivered(by) == \E j \in 1..Len(delivered) : delivered[j].by = by

\* C13: an opener that raises one of the caught exceptions after it has
\* yielded handles: in that step nothing is taken back from what the caller
\* was given, the generator keeps running and its dispatcher is back at the
\* for statement to call the next opener; and as long as the generator is
\* not dropped, what has been delivered stays delivered.
C13_PartialYieldFallsThrough ==
    [][/\ gen' # "none" => IsPrefix(delivered, delivered')
       /\ \A d \in 1..2 :
            (/\ Len(disp'[d].fails) = Len(disp[d].fails) + 1
             /\ disp'[d].fails[Len(disp'[d].fails)].exc \in UnsupportedSource
             /\ HasDelivered(disp'[d].fails[Len(disp'[d].fails)].by))
            => (/\ delivered' = delivered
                /\ gen' = "running"
                /\ disp'[d].pc = "for"
                /\ disp'[d].winner = disp[d].winner)]_vars

\* a truncated tar archive has given a member, then ReadError, and the
\* caller got the handle of text_opener after the handle of the member
C13_Witness ==
    /\ gen = "finished"
    /\ call.kind = "tarbad"
    /\ Rejected(1, "tar", "ReadError")
    /\ Len(delivered) >= 2
    /\ delivered[1].by = "tar"
    /\ delivered[Len(delivered)].by = "text"

\* the i-th opener of the top-level list was called and raised one of the
\* caught exceptions before it had yielded anything
ImmediatelyFailed(i) ==
    /\ i <= Len(disp[1].tried)
    /\ \E k \in 1..Len(disp[1].fails) :
          /\ disp[1].fails[k].by = disp[1].list[i]
          /\ disp[1].fails[k].exc \in UnsupportedSource
    /\ ~HasDelivered(disp[1].list[i])

\* the positions of the top-level list whose opener did not fail immediately
NotImmediate == {i \in 1..Len(disp[1].list) : ~ImmediatelyFailed(i)}

\* C14: a completed top-level call in which some opener did not fail
\* immediately: the winner is the first such opener of the list, and every
\* handle the caller got was made by the winner (for a directory, by the
\* openers it re-yields from).
C14_SingleWinner ==
    (gen = "finished" /\ NotImmediate # {})
    => (/\ disp[1].winner # 0
        /\ \A i \in NotImmediate : disp[1].winner <= i
        /\ disp[1].winner \in NotImmediate
        /\ Winner(1) # "directory"
             => \A j \in 1..Len(delivered) : delivered[j].by = Winner(1))

\* C15: the list directory_opener hands to the dispatcher for a file it has
\* found never holds directory_opener, directory_opener is never called
\* by that dispatcher (so there is no frame below it), and every call that
\* has been made comes to its end.
C15_NoDirectoryInRecursion ==
    /\ [](/\ ~(\E i \in 1..Len(op[1].sublist) :
                  op[1].sublist[i] = "directory")
          /\ ~(\E i \in 1..Len(disp[2].list) : disp[2].list[i] = "directory")
          /\ ~(\E i \in 1..Len(disp[2].tried) :
                  disp[2].tried[i] = "directory")
          /\ op[2].name # "directory")
    /\ (gen = "created") ~> (gen \in {"finished", "raised", "closed"})

\* directory_opener has found two files, the dispatcher has been called for
\* the second of them, and the whole call has ended
C15_Witness ==
    /\ gen = "finished"
    /\ Winner(1) = "directory"
    /\ op[1].k = 2
    /\ Len(disp[2].tried) >= 1
    /\ disp[2].list = without_directory(openers)

\* the single-file openers, and their case "a pattern is given and the base
\* name of the path does not match it" at the dispatcher of depth d
SingleFileOpeners == {"gzip", "bz2", "text"}
BaseNameRejected(d) ==
    /\ disp[d].pc = "done"
    /\ Winner(d) \in SingleFileOpeners
    /\ truthy(call.pattern)
    /\ ~re_match(call.pattern, basename(disp[d].path))

\* the opener that met the case has not failed, no opener after it has been
\* called, and it has opened nothing
EndsAtSkip(d) ==
    /\ ~(\E k \in 1..Len(disp[d].fails) : disp[d].fails[k].by = Winner(d))
    /\ Len(disp[d].tried) = disp[d].winner
    /\ d = 1 => ~(\E h \in streams \cup yielded : h.by = Winner(1))

RECURSIVE SurfacedByBaseName(_)
SurfacedByBaseName(seen) ==
    IF seen = <<>> THEN <<>>
    ELSE LET e == Head(seen) IN
         (IF e.type = "file" /\ NameMatches(call.pattern, basename(e.name))
          THEN <<e.name>> ELSE <<>>) \o SurfacedByBaseName(Tail(seen))

\* C17: the pattern is tested against base names: the handles of a resolved
\* archive are those of its regular-file members whose base name passes the
\* pattern, and a handle of gzip_opener, bz2_opener or text_opener for the
\* path of the call is delivered only if the base name of the path passes.
C17_BaseNameTested ==
    /\ ArchiveResolved => DeliveredEntries = SurfacedByBaseName(op[1].seen)
    /\ (gen = "finished" /\ call.kind # "dir")
       => \A j \in 1..Len(delivered) :
             delivered[j].by \in SingleFileOpeners
             => NameMatches(call.pattern, basename(call.path))

\* the openers of the list given to the call
InCallList(o) == \E i \in 1..Len(call.list) : call.list[i] = o

\* C18: in a call that was given a list of its own, every opener that any
\* dispatcher of the call has called, the one started by directory_opener
\* included, is an opener of that list.
C18_OnlyOpenersOfTheList ==
    ~call.default
    => \A d \in 1..2 :
          \A i \in 1..Len(disp[d].tried) : InCallList(disp[d].tried[i])

====
